---- MODULE Spec2Model ----
(***************************************************************************)
(* Workshop capacity board: the ingestion pipeline of src/app.py (and its  *)
(* stage-prefix variant src/test.py).                                      *)
(*                                                                         *)
(*   Spec          request_json + fetch_sales_orders: one step per HTTP    *)
(*                 round trip, the response being the input of the step.   *)
(*   SpecClassify  process_orders_dataframe: one step per raw order of     *)
(*                 the loop, the raw order being the input of the step.    *)
(*   SpecBatch     process_orders_dataframe on a given argument, then the  *)
(*                 board rendered from the table it returns.               *)
(*   SpecDates     parse_date as a function of its argument.               *)
(***************************************************************************)
EXTENDS Integers, Sequences, FiniteSets, TLC

VARIABLES
    pc,           \* "start", "request" (attempt loop), "loop" (request_json
                  \* returned), "returned", "halted" (st.stop)
    creds,        \* TRUE iff st.secrets holds CIN7_USERNAME and CIN7_KEY
    page,         \* fetch_sales_orders: page
    all_orders,   \* fetch_sales_orders: len(all_orders)
    sizes,        \* len(orders) of every page body that was unpacked, in order
    calls,        \* number of request_json calls made (page requests)
    attempt,      \* request_json: attempt index of the HTTP request about to be sent
    last_error,   \* request_json: last_error
    trace,        \* outcomes of the HTTP requests of the current request_json call
    response,     \* fetch_sales_orders: response, what request_json returned
    bodyIn,       \* parsed body of the most recent 200 response
    waited,       \* seconds slept by the current request_json call
    errors,       \* messages passed to st.error, in order
    warned,       \* TRUE iff the page-limit st.warning was shown
    stop,         \* which break left the pagination loop
    result,       \* what fetch_sales_orders returned
    deployment,   \* "app" (src/app.py) or "test" (src/test.py)
    today,        \* process_orders_dataframe: today, as a day number
    processed,    \* process_orders_dataframe: processed
    order_list,   \* process_orders_dataframe: orders, the argument
    idx,          \* number of elements of orders the loop has gone through
    raised,       \* TRUE iff an exception left process_orders_dataframe
    board,        \* the groups render_board / render_tv_board displayed
    date_arg,     \* parse_date: date_value, the argument
    parsed,       \* what parse_date(date_arg) returned
    via,          \* how the result was handed to parse_date again
    reparsed,     \* what that second call returned
    excluded_stages, \* fetch_sales_orders: excluded_stages, the argument
    where,        \* fetch_sales_orders: where
    params        \* fetch_sales_orders: params of the latest page request

fetchVars == <<pc, creds, page, all_orders, sizes, calls, attempt, last_error,
               trace, response, bodyIn, waited, errors, warned, stop, result>>
classifyVars == <<deployment, today, processed>>
batchVars == <<order_list, idx, raised, board>>
dateVars == <<date_arg, parsed, via, reparsed>>
whereVars == <<excluded_stages, where, params>>
vars == <<pc, creds, page, all_orders, sizes, calls, attempt, last_error,
          trace, response, bodyIn, waited, errors, warned, stop, result,
          deployment, today, processed, order_list, idx, raised, board,
          date_arg, parsed, via, reparsed, excluded_stages, where, params>>

(***************************************************************************)
(* Configuration constants of the program.                                 *)
(***************************************************************************)
API_MAX_RETRIES == 3
API_RETRY_DELAY == 1
DUE_SOON_DAYS == 7
DISTRIBUTION_BRANCH_ID == 6877
rows_per_page == 250
page_limit == 100

NoValue == "None"

(***************************************************************************)
(* HTTP responses.  A 200 response carries a parsed JSON body:             *)
(*   list   a bare list of n records                                       *)
(*   dict   an object; data / Data say whether the key is absent, holds a  *)
(*          value that is no list, or holds a list of n records; Id is     *)
(*          "absent", "falsy" or "truthy"; id likewise for the camelCase   *)
(*          key                                                            *)
(*   scalar a JSON string, number or boolean                               *)
(*   null   JSON null (response.json() gives None)                         *)
(* The server honours rows=250: no list is longer than rows_per_page.      *)
(***************************************************************************)
PageSizes == {0, 40, rows_per_page}
Absent == [kind |-> "absent"]
NonList == [kind |-> "nonlist"]
ListOf(n) == [kind |-> "list", n |-> n]
KeyStates == {Absent, NonList} \cup {ListOf(n) : n \in PageSizes}
ListBodies == [type : {"list"}, n : PageSizes]
\* envelopes, with every combination of the two data keys
EnvelopeBodies == [type : {"dict"}, data : KeyStates, Data : KeyStates,
                   Id : {"absent"}, id : {"absent"}]
\* objects holding no list: single records and other objects
BareBodies == [type : {"dict"}, data : {Absent, NonList}, Data : {Absent, NonList},
               Id : {"absent", "falsy", "truthy"}, id : {"absent", "truthy"}]
Bodies == ListBodies \cup EnvelopeBodies \cup BareBodies
              \cup {[type |-> "scalar"], [type |-> "null"]}

\* response.get("data", response.get("Data", [])): the value under "data" when
\* the key is present, else the value under "Data", else the empty list.
DataValue(body) ==
    IF body.data.kind # "absent" THEN body.data
    ELSE IF body.Data.kind # "absent" THEN body.Data
    ELSE ListOf(0)

\* len(orders) after the response-format handling; the body is a list or a dict.
UnpackOrders(body) ==
    IF body.type = "list" THEN body.n
    ELSE LET orders == DataValue(body)
         IN  IF orders.kind = "list" THEN orders.n
             ELSE IF body.Id = "truthy" THEN 1 ELSE 0

RECURSIVE SumSeq(_)
SumSeq(s) == IF s = <<>> THEN 0 ELSE Head(s) + SumSeq(Tail(s))

Last(s) == s[Len(s)]

\* None, as request_json returns it and as response.json() gives it for JSON null.
NoneBody == [type |-> "null"]

(***************************************************************************)
(* request_json                                                            *)
(***************************************************************************)

\* st.error(...) followed by st.stop(): the script run ends here.
Halt(msg, detail) ==
    /\ pc' = "halted"
    /\ errors' = Append(errors, [msg |-> msg, detail |-> detail])

\* Mutant of EnterRequestJson: the credentials are not looked up first.
EnterRequestJsonUnchecked ==
    /\ calls' = calls + 1
    /\ trace' = <<>>
    /\ pc' = "request"
    /\ attempt' = 0
    /\ last_error' = NoValue
    /\ waited' = 0
    /\ UNCHANGED errors

\* request_json is entered: get_api_credentials, then the attempt loop starts.
EnterRequestJson ==
    /\ calls' = calls + 1
    /\ trace' = <<>>
    /\ IF creds
       THEN /\ pc' = "request"
            /\ attempt' = 0
            /\ last_error' = NoValue
            /\ waited' = 0
            /\ UNCHANGED errors
       ELSE /\ Halt("credentials", NoValue)
            /\ UNCHANGED <<attempt, last_error, waited>>

\* Mutant of Return200: a 200 is not recognised and the attempt is retried.
Return200Retried(body) ==
    /\ attempt' = attempt + 1
    /\ IF attempt + 1 < API_MAX_RETRIES
       THEN UNCHANGED <<pc, response, errors>>
       ELSE /\ pc' = "loop"
            /\ response' = NoneBody
            /\ errors' = Append(errors, [msg |-> "api_error", detail |-> last_error])
    /\ UNCHANGED <<last_error, waited>>

\* return response.json(): the body goes to the caller, no error is shown.
Return200(body) ==
    /\ pc' = "loop"
    /\ response' = body
    /\ UNCHANGED <<attempt, last_error, waited, errors>>

\* Mutant of Exhausted: giving up on a page stops the run.
ExhaustedHalts(err) ==
    /\ pc' = "halted"
    /\ errors' = Append(errors, [msg |-> "api_error", detail |-> err])
    /\ UNCHANGED response

\* The attempt loop is over without a 200: st.error (suppress_error is False
\* in every call of the program), return None.
Exhausted(err) ==
    /\ pc' = "loop"
    /\ response' = NoneBody
    /\ errors' = Append(errors, [msg |-> "api_error", detail |-> err])

\* After a failed attempt: the next attempt, or the end of the loop.
NextAttempt(err, slept) ==
    /\ last_error' = err
    /\ waited' = waited + slept
    /\ attempt' = attempt + 1
    /\ IF attempt + 1 < API_MAX_RETRIES
       THEN UNCHANGED <<pc, response, errors>>
       ELSE Exhausted(err)

\* The sleep before a retry: only when another attempt follows.
RetrySleep == IF attempt < API_MAX_RETRIES - 1
              THEN API_RETRY_DELAY * (attempt + 1) ELSE 0

\* Any other status, a timeout, a connection error, another RequestException
\* (an unparseable 200 body among them): last_error is set, then the retry sleep.
HandleFailure(kind) == NextAttempt(kind, RetrySleep)

\* Mutant of Handle429: rate-limit retries do not use up an attempt.
Handle429OwnBudget ==
    /\ waited' = waited + API_RETRY_DELAY * (attempt + 1) * 2
    /\ UNCHANGED <<pc, response, errors, attempt, last_error>>

\* HTTP 429: sleep API_RETRY_DELAY * (attempt + 1) * 2 and continue, which
\* leaves last_error as it was.
Handle429 == NextAttempt(last_error, API_RETRY_DELAY * (attempt + 1) * 2)

\* Mutant of RespondAuth: 401 and 403 are retried like any other status.
RespondAuthRetried(status) == HandleFailure(status)

\* HTTP 401 and 403: st.error and st.stop.
RespondAuth(status) ==
    /\ Halt("auth", status)
    /\ UNCHANGED <<response, attempt, last_error, waited>>

\* One HTTP round trip of the attempt loop: requests.get and what the code
\* does with its outcome.
Receive(outcome) ==
    /\ pc = "request"
    /\ trace' = Append(trace, outcome)
    /\ UNCHANGED <<creds, page, all_orders, sizes, calls, warned, stop, result>>
    /\ UNCHANGED <<classifyVars, batchVars, dateVars, whereVars>>

Respond200 ==
    /\ Receive("200")
    /\ \E body \in Bodies :
          /\ bodyIn' = body
          /\ Return200(body)

Respond401 ==
    /\ Receive("401")
    /\ RespondAuth("401")
    /\ UNCHANGED bodyIn

Respond403 ==
    /\ Receive("403")
    /\ RespondAuth("403")
    /\ UNCHANGED bodyIn

Respond429 ==
    /\ Receive("429")
    /\ Handle429
    /\ UNCHANGED bodyIn

RespondOtherStatus ==
    /\ Receive("500")
    /\ HandleFailure("HTTP 500")
    /\ UNCHANGED bodyIn

RespondTimeout ==
    /\ Receive("timeout")
    /\ HandleFailure("timed out")
    /\ UNCHANGED bodyIn

RespondConnectionError ==
    /\ Receive("connection")
    /\ HandleFailure("could not connect")
    /\ UNCHANGED bodyIn

RespondRequestException ==
    /\ Receive("exception")
    /\ HandleFailure("request failed")
    /\ UNCHANGED bodyIn

(***************************************************************************)
(* fetch_sales_orders                                                      *)
(***************************************************************************)

\* Mutant of ReturnTable: the loop is left with an empty table.
ReturnTableDropped(n, why) ==
    /\ pc' = "returned"
    /\ stop' = why
    /\ result' = [kind |-> "table", raw |-> 0]

\* The loop is left: the table returned.  raw is the number of raw records
\* handed to process_orders_dataframe; with all_orders empty it is the empty
\* pd.DataFrame().
ReturnTable(n, why) ==
    /\ pc' = "returned"
    /\ stop' = why
    /\ result' = [kind |-> "table", raw |-> n]

\* Mutant of BreakOnNone: a failed page discards the pages before it.
BreakOnNoneDiscard == ReturnTable(0, "response_none")

\* if response is None: break
BreakOnNone == ReturnTable(all_orders, "response_none")

\* Mutant of IsLastPage: a full page is taken for the last one.
IsLastPageInclusive(n) == n <= rows_per_page

\* len(orders) < rows_per_page: the last page
IsLastPage(n) == n < rows_per_page

\* Mutant of OverLimit: the limit is tested one page late.
OverLimitLate(p) == p > page_limit + 1

\* page > 100, after page += 1
OverLimit(p) == p > page_limit

\* fetch_sales_orders is called: page = 1, all_orders = [], first request_json.
FetchStart ==
    /\ pc = "start"
    /\ EnterRequestJson
    /\ UNCHANGED <<creds, page, all_orders, sizes, response, bodyIn, warned,
                   stop, result>>
    /\ UNCHANGED <<classifyVars, batchVars, dateVars, whereVars>>

\* The body of the while loop after request_json returned, up to the return
\* of the function or to the request_json call of the next page.
LoopBody ==
    /\ pc = "loop"
    /\ UNCHANGED <<creds, response, bodyIn>>
    /\ UNCHANGED <<classifyVars, batchVars, dateVars, whereVars>>
    /\ IF response.type = "null" THEN
           /\ BreakOnNone
           /\ UNCHANGED <<page, all_orders, sizes, calls, trace, attempt,
                          last_error, waited, errors, warned>>
       ELSE IF response.type = "scalar" THEN
           /\ ReturnTable(all_orders, "shape")
           /\ UNCHANGED <<page, all_orders, sizes, calls, trace, attempt,
                          last_error, waited, errors, warned>>
       ELSE LET n == UnpackOrders(response) IN
           /\ sizes' = Append(sizes, n)
           /\ IF n = 0 THEN
                  /\ ReturnTable(all_orders, "empty")
                  /\ UNCHANGED <<page, all_orders, calls, trace, attempt,
                                 last_error, waited, errors, warned>>
              ELSE IF IsLastPage(n) THEN
                  /\ all_orders' = all_orders + n
                  /\ ReturnTable(all_orders + n, "short")
                  /\ UNCHANGED <<page, calls, trace, attempt, last_error,
                                 waited, errors, warned>>
              ELSE IF OverLimit(page + 1) THEN
                  /\ all_orders' = all_orders + n
                  /\ page' = page + 1
                  /\ warned' = TRUE
                  /\ ReturnTable(all_orders + n, "limit")
                  /\ UNCHANGED <<calls, trace, attempt, last_error, waited,
                                 errors>>
              ELSE
                  /\ all_orders' = all_orders + n
                  /\ page' = page + 1
                  /\ EnterRequestJson
                  /\ UNCHANGED <<warned, stop, result>>

\* Mutant of MainRenderBoard: the board is rendered after a fatal error too.
MainRenderBoardAfterError ==
    /\ pc \in {"returned", "halted"}
    /\ board.view = "none"
    /\ board' = [view |-> "info"]
    /\ UNCHANGED <<order_list, idx, raised>>
    /\ UNCHANGED <<fetchVars, classifyVars, dateVars, whereVars>>

\* main, after fetch_sales_orders returned: render_board(df).  An empty table
\* gives the "No active jobs found" notice; a fetch that returned raw records
\* gives the notice when process_orders_dataframe kept none of them, the
\* groups otherwise.
MainRenderBoard ==
    /\ pc = "returned"
    /\ board.view = "none"
    /\ \E kept \in BOOLEAN :
          /\ kept => result.raw > 0
          /\ board' = IF kept THEN [view |-> "groups"] ELSE [view |-> "info"]
    /\ UNCHANGED <<order_list, idx, raised>>
    /\ UNCHANGED <<fetchVars, classifyVars, dateVars, whereVars>>

FetchIdle ==
    /\ pc = "start"
    /\ page = 1
    /\ all_orders = 0
    /\ sizes = <<>>
    /\ calls = 0
    /\ attempt = 0
    /\ last_error = NoValue
    /\ trace = <<>>
    /\ response = NoneBody
    /\ bodyIn = NoneBody
    /\ waited = 0
    /\ errors = <<>>
    /\ warned = FALSE
    /\ stop = NoValue
    /\ result = [kind |-> "none"]

ClassifyIdle ==
    /\ deployment = "app"
    /\ today = 0
    /\ processed = <<>>

BatchIdle ==
    /\ order_list = <<>>
    /\ idx = 0
    /\ raised = FALSE
    /\ board = [view |-> "none"]

\* parse_date has not been called
NotCalled == [t |-> "not called"]

DateIdle ==
    /\ date_arg = NotCalled
    /\ parsed = NotCalled
    /\ via = "none"
    /\ reparsed = NotCalled

\* fetch_sales_orders has not built its query
WhereIdle ==
    /\ excluded_stages = <<>>
    /\ where = NotCalled
    /\ params = NotCalled

Init ==
    /\ FetchIdle
    /\ creds \in BOOLEAN
    /\ ClassifyIdle
    /\ BatchIdle
    /\ DateIdle
    /\ WhereIdle

Next ==
    \/ FetchStart
    \/ LoopBody
    \/ Respond200
    \/ Respond401
    \/ Respond403
    \/ Respond429
    \/ RespondOtherStatus
    \/ RespondTimeout
    \/ RespondConnectionError
    \/ RespondRequestException
    \/ MainRenderBoard

Spec == Init /\ [][Next]_vars

\* Every call of the script runs on: no step that can be taken is put off
\* for ever.
SpecLive == Spec /\ WF_vars(Next)

(***************************************************************************)
(* process_orders_dataframe                                                *)
(*                                                                         *)
(* JSON and Python values carry their type in the field t.  A raw order    *)
(* and a line item are functions from the keys present to values.          *)
(***************************************************************************)
PyNone == [t |-> "none"]
PyBool(b) == [t |-> "bool", b |-> b]
PyInt(i) == [t |-> "int", i |-> i]
PyStr(s) == [t |-> "str", s |-> s]
\* a non-empty string that reads as calendar day d under the format fmt
DateStr(fmt, d) == [t |-> "str", fmt |-> fmt, day |-> d]
\* a datetime: calendar day, second of the day, microsecond
PyDatetimeAt(d, sec, us) == [t |-> "datetime", day |-> d, sec |-> sec, us |-> us]
\* a datetime at midnight of calendar day d
PyDatetime(d) == PyDatetimeAt(d, 0, 0)
PyList(items) == [t |-> "list", items |-> items]

IsDateStr(v) == v.t = "str" /\ "day" \in DOMAIN v

\* Python truth value
Truthy(v) ==
    CASE v.t = "none" -> FALSE
      [] v.t = "bool" -> v.b
      [] v.t = "int" -> v.i # 0
      [] v.t = "str" -> IF "s" \in DOMAIN v THEN v.s # "" ELSE TRUE
      [] v.t = "datetime" -> TRUE
      [] v.t = "list" -> v.items # <<>>

\* a or b
PyOr(a, b) == IF Truthy(a) THEN a ELSE b

\* Mutant of Get: a missing key reads as 0.
GetZero(d, key) == IF key \in DOMAIN d THEN d[key] ELSE PyInt(0)

\* d.get(key)
Get(d, key) == IF key \in DOMAIN d THEN d[key] ELSE PyNone

\* field_name[0].lower() + field_name[1:]
Camel(name) ==
    CASE name = "Id" -> "id"
      [] name = "Reference" -> "reference"
      [] name = "ProjectName" -> "projectName"
      [] name = "Company" -> "company"
      [] name = "CreatedDate" -> "createdDate"
      [] name = "ModifiedDate" -> "modifiedDate"
      [] name = "EstimatedDeliveryDate" -> "estimatedDeliveryDate"
      [] name = "DispatchedDate" -> "dispatchedDate"
      [] name = "LineItems" -> "lineItems"
      [] name = "Stage" -> "stage"
      [] name = "Status" -> "status"
      [] name = "BranchId" -> "branchId"

get_field(order, field_name) ==
    PyOr(Get(order, field_name), Get(order, Camel(field_name)))

\* Mutant of date_formats: month/day/year is tried before day/month/year.
date_formats_month_first ==
    <<"%Y-%m-%dT%H:%M:%S", "%Y-%m-%dT%H:%M:%S.%f",
      "%Y-%m-%dT%H:%M:%SZ", "%Y-%m-%dT%H:%M:%S.%fZ",
      "%Y-%m-%d", "%m/%d/%Y", "%d/%m/%Y">>

date_formats == <<"%Y-%m-%dT%H:%M:%S", "%Y-%m-%dT%H:%M:%S.%f",
                  "%Y-%m-%dT%H:%M:%SZ", "%Y-%m-%dT%H:%M:%S.%fZ",
                  "%Y-%m-%d", "%d/%m/%Y", "%m/%d/%Y">>

(***************************************************************************)
(* Date strings as text.  A string is kept as the numbers its digit groups *)
(* read as, the separator between date and time, the fraction of the       *)
(* second in microseconds (NoFrac when there is none) and what follows.    *)
(*   slash   a/b/y                  date   y-m-d                           *)
(*   iso     y-m-d<sep>h:mi:sec[.frac]         each followed by suffix     *)
(* Days are counted from 1 January 2024, day 0.                            *)
(***************************************************************************)
NoFrac == -1

SlashText(a, b, y) ==
    [t |-> "str", form |-> "slash", a |-> a, b |-> b, y |-> y, suffix |-> ""]
DateText(y, m, d, suffix) ==
    [t |-> "str", form |-> "date", y |-> y, m |-> m, d |-> d, suffix |-> suffix]
IsoText(y, m, d, sep, h, mi, sec, frac, suffix) ==
    [t |-> "str", form |-> "iso", y |-> y, m |-> m, d |-> d, sep |-> sep,
     h |-> h, mi |-> mi, sec |-> sec, frac |-> frac, suffix |-> suffix]

IsDateText(v) == v.t = "str" /\ "form" \in DOMAIN v

IsLeap(y) == y % 4 = 0 /\ (y % 100 # 0 \/ y % 400 = 0)

DaysInMonth(y, m) ==
    IF m = 2 THEN (IF IsLeap(y) THEN 29 ELSE 28)
    ELSE IF m \in {4, 6, 9, 11} THEN 30 ELSE 31

\* datetime(y, m, d) raises no ValueError
ValidDate(y, m, d) ==
    /\ m \in 1..12
    /\ d >= 1
    /\ d <= DaysInMonth(y, m)

ValidTime(h, mi, sec) == h \in 0..23 /\ mi \in 0..59 /\ sec \in 0..59

RECURSIVE YearStart(_)
YearStart(y) ==
    IF y = 2024 THEN 0
    ELSE IF y > 2024 THEN YearStart(y - 1) + (IF IsLeap(y - 1) THEN 366 ELSE 365)
    ELSE YearStart(y + 1) - (IF IsLeap(y) THEN 366 ELSE 365)

RECURSIVE DaysBeforeMonth(_, _)
DaysBeforeMonth(y, m) ==
    IF m = 1 THEN 0 ELSE DaysBeforeMonth(y, m - 1) + DaysInMonth(y, m - 1)

DayNumber(y, m, d) == YearStart(y) + DaysBeforeMonth(y, m) + d - 1

\* date_value.replace("+00:00", "").replace("Z", "")
Clean(text) ==
    [text EXCEPT !.suffix = IF @ \in {"Z", "+00:00"} THEN "" ELSE @]

\* fmt.replace("Z", "")
Unz(fmt) ==
    CASE fmt = "%Y-%m-%dT%H:%M:%SZ" -> "%Y-%m-%dT%H:%M:%S"
      [] fmt = "%Y-%m-%dT%H:%M:%S.%fZ" -> "%Y-%m-%dT%H:%M:%S.%f"
      [] OTHER -> fmt

\* datetime.strptime(text, fmt); PyNone stands for ValueError
Strptime(text, fmt) ==
    IF text.suffix # "" THEN PyNone
    ELSE IF fmt \in {"%Y-%m-%dT%H:%M:%S", "%Y-%m-%dT%H:%M:%S.%f"}
    THEN IF /\ text.form = "iso"
            /\ text.sep = "T"
            /\ (text.frac # NoFrac) <=> (fmt = "%Y-%m-%dT%H:%M:%S.%f")
            /\ ValidDate(text.y, text.m, text.d)
            /\ ValidTime(text.h, text.mi, text.sec)
         THEN PyDatetimeAt(DayNumber(text.y, text.m, text.d),
                           3600 * text.h + 60 * text.mi + text.sec,
                           IF text.frac = NoFrac THEN 0 ELSE text.frac)
         ELSE PyNone
    ELSE IF fmt = "%Y-%m-%d"
    THEN IF text.form = "date" /\ ValidDate(text.y, text.m, text.d)
         THEN PyDatetime(DayNumber(text.y, text.m, text.d))
         ELSE PyNone
    ELSE IF fmt = "%d/%m/%Y"
    THEN IF text.form = "slash" /\ ValidDate(text.y, text.b, text.a)
         THEN PyDatetime(DayNumber(text.y, text.b, text.a))
         ELSE PyNone
    ELSE IF fmt = "%m/%d/%Y"
    THEN IF text.form = "slash" /\ ValidDate(text.y, text.a, text.b)
         THEN PyDatetime(DayNumber(text.y, text.a, text.b))
         ELSE PyNone
    ELSE PyNone

\* Mutant of parse_date: a datetime is not passed through.
parse_date_strings_only(date_value) ==
    IF date_value.t = "str" /\ "form" \in DOMAIN date_value
    THEN LET hits == {i \in 1..7 : Strptime(Clean(date_value), Unz(date_formats[i])) # PyNone}
         IN  IF hits = {} THEN PyNone
             ELSE Strptime(Clean(date_value),
                           Unz(date_formats[CHOOSE i \in hits : \A j \in hits : i <= j]))
    ELSE PyNone

RECURSIVE TryFormats(_, _)
\* "for fmt in date_formats" from the i-th format on: the first that reads
\* the text returns, ValueError goes on to the next, None after the last
TryFormats(text, i) ==
    IF i > Len(date_formats) THEN PyNone
    ELSE LET r == Strptime(Clean(text), Unz(date_formats[i]))
         IN  IF r # PyNone THEN r ELSE TryFormats(text, i + 1)

\* parse_date: None for None, a datetime as it is, None for what is no string,
\* the datetime read by the first format that matches, None when none does.
parse_date(date_value) ==
    IF date_value.t = "none" THEN PyNone
    ELSE IF date_value.t = "datetime" THEN date_value
    ELSE IF date_value.t # "str" THEN PyNone
    ELSE IF IsDateText(date_value) THEN TryFormats(date_value, 1)
    ELSE IF IsDateStr(date_value)
              /\ \E i \in 1..Len(date_formats) : date_formats[i] = date_value.fmt
         THEN PyDatetime(date_value.day)
    ELSE PyNone

\* float(qty) raises neither TypeError nor ValueError
CanFloat(v) ==
    \/ v.t \in {"int", "bool"}
    \/ v.t = "str" /\ "num" \in DOMAIN v

\* float(qty), for a value that has one
ToFloat(v) ==
    CASE v.t = "int" -> v.i
      [] v.t = "bool" -> IF v.b THEN 1 ELSE 0
      [] v.t = "str" -> v.num

\* the quantity one line item adds to qty_total
ItemQty(item) ==
    LET qty == PyOr(PyOr(PyOr(PyOr(Get(item, "Qty"), Get(item, "qty")),
                              Get(item, "UomQtyOrdered")),
                         Get(item, "uomQtyOrdered")), PyInt(0))
    IN  IF CanFloat(qty) THEN ToFloat(qty) ELSE 0

RECURSIVE QtyTotal(_)
QtyTotal(items) ==
    IF items = <<>> THEN 0 ELSE ItemQty(Head(items)) + QtyTotal(Tail(items))

\* Mutant of SizeBucket: ten lines are still small.
SizeBucketInclusive(line_count) ==
    IF line_count <= 10 THEN "S" ELSE IF line_count < 30 THEN "M" ELSE "L"

\* size_bucket: "S" below 10 lines, "M" below 30, "L" otherwise
SizeBucket(line_count) ==
    IF line_count < 10 THEN "S" ELSE IF line_count < 30 THEN "M" ELSE "L"

\* Mutant of IsVoid: the camelCase flag is not looked at.
IsVoidPascalOnly(order) == Truthy(PyOr(Get(order, "IsVoid"), PyBool(FALSE)))

\* is_void = order.get("IsVoid") or order.get("isVoid") or False
IsVoid(order) ==
    Truthy(PyOr(PyOr(Get(order, "IsVoid"), Get(order, "isVoid")), PyBool(FALSE)))

\* The stages of the model that start with WORKSHOP_STAGE_PREFIX, "Workshop - ".
PrefixedStages == {"Workshop - New", "Workshop - Processing",
                   "Workshop - Job Complete", "Workshop - To Collect"}
StartsWithPrefix(v) == v.t = "str" /\ ~IsDateStr(v) /\ v.s \in PrefixedStages

\* Mutant of BranchMatches: the camelCase key is not looked at.
BranchMatchesPascalOnly(order) ==
    Get(order, "DistributionBranchId") = PyInt(DISTRIBUTION_BRANCH_ID)

\* src/app.py: the order is of the configured distribution branch
BranchMatches(order) ==
    LET dist_branch_id == PyOr(Get(order, "DistributionBranchId"),
                               Get(order, "distributionBranchId"))
    IN  DISTRIBUTION_BRANCH_ID # 0 =>
            (dist_branch_id.t = "int" /\ dist_branch_id.i = DISTRIBUTION_BRANCH_ID)

\* src/test.py: the stage starts with the workshop prefix
StageMatches(order) ==
    StartsWithPrefix(PyOr(PyOr(Get(order, "Stage"), Get(order, "stage")), PyStr("")))

Included(order, dep) ==
    /\ ~IsVoid(order)
    /\ IF dep = "app" THEN BranchMatches(order) ELSE StageMatches(order)

\* Mutant of IsDispatched: the dispatch timestamp is not looked at.
IsDispatchedByStageOnly(stage, dispatched_date) == stage = PyStr("Dispatched")

\* stage == "Dispatched" or dispatched_date is not None
IsDispatched(stage, dispatched_date) ==
    stage = PyStr("Dispatched") \/ dispatched_date.t # "none"

\* Mutant of IsPastDue: an order due today counts as overdue.
IsPastDueInclusive(days_until_due) == days_until_due <= 0

\* days_until_due < 0
IsPastDue(days_until_due) == days_until_due < 0

\* Mutant of IsWithinDueSoon: the threshold day itself is left out.
IsWithinDueSoonExclusive(days_until_due) == days_until_due < DUE_SOON_DAYS

\* days_until_due <= DUE_SOON_DAYS
IsWithinDueSoon(days_until_due) == days_until_due <= DUE_SOON_DAYS

Abs(n) == IF n < 0 THEN -n ELSE n

\* The status flags: is_overdue, is_due_soon, is_on_track, days_overdue.
StatusFlags(estimated_delivery, is_dispatched, now) ==
    IF Truthy(estimated_delivery) /\ ~is_dispatched
    THEN LET days_until_due == estimated_delivery.day - now
         IN  IF IsPastDue(days_until_due)
             THEN [IsOverdue |-> TRUE, IsDueSoon |-> FALSE, IsOnTrack |-> FALSE,
                   DaysOverdue |-> PyInt(Abs(days_until_due))]
             ELSE IF IsWithinDueSoon(days_until_due)
             THEN [IsOverdue |-> FALSE, IsDueSoon |-> TRUE, IsOnTrack |-> FALSE,
                   DaysOverdue |-> PyNone]
             ELSE [IsOverdue |-> FALSE, IsDueSoon |-> FALSE, IsOnTrack |-> TRUE,
                   DaysOverdue |-> PyNone]
    ELSE [IsOverdue |-> FALSE, IsDueSoon |-> FALSE, IsOnTrack |-> FALSE,
          DaysOverdue |-> PyNone]

\* The dict appended to processed for an order that is not skipped.
\* WorkloadScore is kept in tenths: 10 * (line_count + qty_total / 10.0).
ProcessedRow(order, now) ==
    LET created_date == parse_date(get_field(order, "CreatedDate"))
        modified_date == parse_date(get_field(order, "ModifiedDate"))
        estimated_delivery == parse_date(get_field(order, "EstimatedDeliveryDate"))
        dispatched_date == parse_date(get_field(order, "DispatchedDate"))
        line_items == PyOr(get_field(order, "LineItems"), PyList(<<>>))
        line_count == IF Truthy(line_items) THEN Len(line_items.items) ELSE 0
        qty_total == QtyTotal(line_items.items)
        stage == PyOr(get_field(order, "Stage"), PyStr(""))
        flags == StatusFlags(estimated_delivery,
                             IsDispatched(stage, dispatched_date), now)
    IN  [Id |-> get_field(order, "Id"),
         Reference |-> PyOr(get_field(order, "Reference"), PyStr("")),
         ProjectName |-> PyOr(get_field(order, "ProjectName"), PyStr("")),
         Company |-> PyOr(get_field(order, "Company"), PyStr("")),
         CreatedDate |-> created_date,
         ModifiedDate |-> modified_date,
         Stage |-> stage,
         Status |-> PyOr(get_field(order, "Status"), PyStr("")),
         BranchId |-> get_field(order, "BranchId"),
         EstimatedDeliveryDate |-> estimated_delivery,
         DispatchedDate |-> dispatched_date,
         LineCount |-> line_count,
         QtyTotal |-> qty_total,
         SizeBucket |-> SizeBucket(line_count),
         WorkloadScore |-> 10 * line_count + qty_total,
         IsOverdue |-> flags.IsOverdue,
         IsDueSoon |-> flags.IsDueSoon,
         IsOnTrack |-> flags.IsOnTrack,
         DaysOverdue |-> flags.DaysOverdue,
         HasLineItems |-> Truthy(line_items)]

(***************************************************************************)
(* The raw orders fed to the loop.  Dates are written relative to today so *)
(* that the due-soon boundaries are met whatever today is.                 *)
(***************************************************************************)
MaxOrders == 2
MaxToday == 1

EtaOffsets == {-3, 0, DUE_SOON_DAYS, DUE_SOON_DAYS + 1}

Field(key, values) == {<<>>} \cup {key :> v : v \in values}

VoidChoices == Field("IsVoid", {PyBool(TRUE)})
BranchChoices == {"DistributionBranchId" :> PyInt(DISTRIBUTION_BRANCH_ID),
                  "DistributionBranchId" :> PyInt(1)}
StageChoices == Field("Stage", {PyStr("Dispatched"), PyStr("Workshop - Processing")})
EtaChoices(now) ==
    Field("EstimatedDeliveryDate",
          {DateStr("%Y-%m-%dT%H:%M:%SZ", now + off) : off \in EtaOffsets})
DispatchChoices(now) == Field("DispatchedDate", {DateStr("%Y-%m-%d", now - 1)})

\* every combination of the fields the exclusion rules and the flags read
ProductOrders(now) ==
    {v @@ b @@ s @@ e @@ d : v \in VoidChoices, b \in BranchChoices,
        s \in StageChoices, e \in EtaChoices(now), d \in DispatchChoices(now)}

\* orders with camelCase keys, falsy and unparseable values, and line items
VariantOrders(now) ==
    LET base == ("DistributionBranchId" :> PyInt(DISTRIBUTION_BRANCH_ID))
                    @@ ("Stage" :> PyStr("Workshop - New"))
    IN  { base @@ ("estimatedDeliveryDate" :> DateStr("%d/%m/%Y", now - 1)),
          base @@ ("EstimatedDeliveryDate" :> PyStr("soon")),
          base @@ ("EstimatedDeliveryDate" :> PyInt(20240403)),
          base @@ ("EstimatedDeliveryDate" :> DateStr("%Y-%m-%d", now + 1))
               @@ ("DispatchedDate" :> PyStr("")),
          base @@ ("isVoid" :> PyBool(TRUE)),
          base @@ ("IsVoid" :> PyBool(FALSE)) @@ ("Id" :> PyInt(17))
               @@ ("LineItems" :> PyList(<<"Qty" :> PyInt(5),
                                           "qty" :> PyStr("n/a")>>)),
          ("distributionBranchId" :> PyInt(DISTRIBUTION_BRANCH_ID))
               @@ ("stage" :> PyStr("Workshop - To Collect"))
               @@ ("EstimatedDeliveryDate" :> PyDatetime(now + DUE_SOON_DAYS)) }

\* orders with line items on either side of the size thresholds, of
\* different quantities, stages and delivery dates
SizedOrders(now) ==
    {("DistributionBranchId" :> PyInt(DISTRIBUTION_BRANCH_ID))
        @@ ("Stage" :> PyStr(st[1])) @@ st[2]
        @@ ("LineItems" :> PyList([k \in 1..n |-> "Qty" :> PyInt(q)])) :
        n \in {9, 10, 29, 30}, q \in {1, 40},
        st \in {<<"Workshop - New", <<>>>>,
                <<"Workshop - Processing",
                  "EstimatedDeliveryDate" :> DateStr("%Y-%m-%d", now - 3)>>}}

RawOrders(now) == ProductOrders(now) \cup VariantOrders(now) \cup SizedOrders(now)

\* One iteration of "for order in orders": a skipped order leaves processed
\* as it is, any other is appended.
ProcessOrder(dep) ==
    /\ deployment = dep
    /\ Len(processed) < MaxOrders
    /\ \E order \in RawOrders(today) :
          processed' = IF Included(order, dep)
                       THEN Append(processed, ProcessedRow(order, today))
                       ELSE processed
    /\ UNCHANGED <<deployment, today>>
    /\ UNCHANGED <<fetchVars, batchVars, dateVars, whereVars>>

ProcessOrderApp == ProcessOrder("app")

ProcessOrderTest == ProcessOrder("test")

InitClassify ==
    /\ FetchIdle
    /\ creds = TRUE
    /\ deployment \in {"app", "test"}
    /\ today \in 0..MaxToday
    /\ processed = <<>>
    /\ BatchIdle
    /\ DateIdle
    /\ WhereIdle

NextClassify == ProcessOrderApp \/ ProcessOrderTest

SpecClassify == InitClassify /\ [][NextClassify]_vars

(***************************************************************************)
(* Claims about request_json and fetch_sales_orders, checked under Spec.   *)
(***************************************************************************)

AllFull(s, k) == \A i \in 1..k : s[i] = rows_per_page

NoApiError == \A i \in 1..Len(errors) : errors[i].msg # "api_error"

\* C1: pages are requested one after the other from page 1, the next one only
\* after a page of exactly 250 records; the fetch stops at the first page with
\* fewer than 250 records, having made as many page requests as that page's
\* index and returning the records of all pages received; sizes 250, 250, 40
\* give 3 page requests and 540 records.
C1_StopsAtFirstShortPage ==
    /\ pc \in {"request", "loop"} =>
          /\ page = calls
          /\ Len(sizes) = calls - 1
          /\ AllFull(sizes, Len(sizes))
          /\ all_orders = SumSeq(sizes)
    /\ (pc = "returned" /\ stop \in {"short", "empty"}) =>
          /\ calls = Len(sizes)
          /\ page = calls
          /\ Last(sizes) < rows_per_page
          /\ AllFull(sizes, calls - 1)
          /\ result.raw = SumSeq(sizes)
    /\ (Len(sizes) >= 3 /\ SubSeq(sizes, 1, 3) = <<250, 250, 40>>) =>
          /\ pc = "returned"
          /\ calls = 3
          /\ result.raw = 540

C1_Witness ==
    /\ pc = "returned"
    /\ sizes = <<250, 250, 40>>
    /\ calls = 3
    /\ result.raw = 540

\* C2: a 401 or 403 on any attempt halts the run at once: no retry, no later
\* page, and fetch_sales_orders returns nothing, whatever was accumulated.
C2_AuthFailureHalts ==
    /\ [](\A i \in 1..Len(trace) : trace[i] \in {"401", "403"} =>
             /\ i = Len(trace)
             /\ pc = "halted"
             /\ result.kind = "none"
             /\ Last(errors) = [msg |-> "auth", detail |-> trace[i]])
    /\ [][pc = "halted" => (pc' = "halted" /\ trace' = trace /\ calls' = calls
                                /\ result' = result)]_vars

C2_Witness ==
    /\ pc = "halted"
    /\ trace = <<"429", "403">>
    /\ all_orders = 2 * rows_per_page
    /\ result.kind = "none"

\* C3: when the 3 attempts for a page all fail with retryable failures, the
\* pagination ends, an API error is shown for that page, and the records of
\* the earlier pages are returned.
C3_ExhaustedKeepsEarlierPages ==
    (attempt = API_MAX_RETRIES /\ pc \in {"loop", "returned"}) =>
        /\ Len(trace) = API_MAX_RETRIES
        /\ \A i \in 1..Len(trace) : trace[i] \notin {"200", "401", "403"}
        /\ errors # <<>>
        /\ Last(errors).msg = "api_error"
        /\ response = NoneBody
        /\ pc = "returned" =>
              /\ stop = "response_none"
              /\ calls = page
              /\ Len(sizes) = page - 1
              /\ result = [kind |-> "table", raw |-> rows_per_page * (page - 1)]

C3_Witness ==
    /\ pc = "returned"
    /\ attempt = API_MAX_RETRIES
    /\ trace = <<"500", "timeout", "connection">>
    /\ page = 3
    /\ result.raw = 500

\* C4: one request_json call sends at most 3 HTTP requests, and every failed
\* request, a 429 included, uses up one of the 3 attempts.
C4_AtMostThreeRequests ==
    /\ Len(trace) <= API_MAX_RETRIES
    /\ pc = "request" => Len(trace) = attempt
    /\ (pc = "request" /\ trace # <<>>) => Last(trace) \notin {"200", "401", "403"}

C4_Witness ==
    /\ trace = <<"429", "429", "429">>
    /\ attempt = API_MAX_RETRIES
    /\ pc = "loop"

\* C5: a 200 on any attempt ends the attempt loop at once: request_json
\* returns the parsed body of that response and shows no error; a 429 then a
\* 200 make exactly 2 HTTP requests for the page.
C5_SuccessEndsAttempts ==
    \A i \in 1..Len(trace) : trace[i] = "200" =>
        /\ i = Len(trace)
        /\ i = attempt + 1
        /\ pc \in {"loop", "returned"}
        /\ response = bodyIn
        /\ NoApiError

C5_Witness ==
    /\ trace = <<"429", "200">>
    /\ pc = "loop"
    /\ response = [type |-> "list", n |-> 40]
    /\ errors = <<>>

\* C6: no page beyond page 100 is requested; when page 100 is full the fetch
\* stops with the truncation warning, shows no error and returns the records
\* of the 100 pages.
C6_PageLimit ==
    /\ pc \in {"request", "loop"} => page <= page_limit
    /\ calls <= page_limit
    /\ warned <=> stop = "limit"
    /\ stop = "limit" =>
          /\ pc = "returned"
          /\ calls = page_limit
          /\ Len(sizes) = page_limit
          /\ AllFull(sizes, page_limit)
          /\ errors = <<>>
          /\ result = [kind |-> "table", raw |-> page_limit * rows_per_page]

C6_Witness ==
    /\ pc = "returned"
    /\ stop = "limit"
    /\ warned
    /\ calls = page_limit
    /\ result.raw = page_limit * rows_per_page

\* C7: a body that is a single bare record (an object with no data key,
\* carrying its identifier under either casing of the key) counts as a
\* one-element sequence and contributes exactly one record.
C7_BareRecordIsOneRecord ==
    (/\ pc = "returned"
     /\ response.type = "dict"
     /\ response.data = Absent
     /\ response.Data = Absent
     /\ (response.Id = "truthy" \/ response.id = "truthy")) =>
        /\ Last(sizes) = 1
        /\ result.raw = all_orders
        /\ all_orders = rows_per_page * (page - 1) + 1

(***************************************************************************)
(* Claims about process_orders_dataframe, checked under SpecClassify.      *)
(***************************************************************************)

Rows == {processed[i] : i \in 1..Len(processed)}

FlagCount(r) == (IF r.IsOverdue THEN 1 ELSE 0) + (IF r.IsDueSoon THEN 1 ELSE 0)
                    + (IF r.IsOnTrack THEN 1 ELSE 0)

NoDate(r) == FlagCount(r) = 0 /\ r.DaysOverdue = PyNone

RowDispatched(r) == r.Stage = PyStr("Dispatched") \/ r.DispatchedDate # PyNone

\* date(estimatedDeliveryAt) - today, in whole days
DaysUntilDue(r) == r.EstimatedDeliveryDate.day - today

\* C8: an order with an estimated delivery date that is not dispatched is,
\* with d = date(estimatedDeliveryAt) - today: Overdue with daysOverdue = -d
\* when d < 0, DueSoon when 0 <= d <= 7, OnTrack when d > 7.
C8_UrgencyByDaysUntilDue ==
    \A r \in Rows :
        (r.EstimatedDeliveryDate # PyNone /\ ~RowDispatched(r)) =>
            LET d == DaysUntilDue(r)
            IN  /\ FlagCount(r) = 1
                /\ d < 0 => (r.IsOverdue /\ r.DaysOverdue = PyInt(-d))
                /\ (0 <= d /\ d <= 7) => (r.IsDueSoon /\ r.DaysOverdue = PyNone)
                /\ d > 7 => (r.IsOnTrack /\ r.DaysOverdue = PyNone)

C8_Witness ==
    /\ Len(processed) = 2
    /\ ~RowDispatched(processed[1]) /\ ~RowDispatched(processed[2])
    /\ processed[1].EstimatedDeliveryDate = PyDatetime(today + 7)
    /\ processed[1].IsDueSoon
    /\ processed[2].EstimatedDeliveryDate = PyDatetime(today - 3)
    /\ processed[2].IsOverdue
    /\ processed[2].DaysOverdue = PyInt(3)

\* C9: every order of the collection has at most one of the flags IsOverdue,
\* IsDueSoon, IsOnTrack, and DaysOverdue is set exactly when IsOverdue is,
\* to an integer >= 1.
C9_OneUrgencyPerOrder ==
    \A r \in Rows :
        /\ FlagCount(r) <= 1
        /\ r.DaysOverdue # PyNone <=> r.IsOverdue
        /\ r.IsOverdue => (r.DaysOverdue.t = "int" /\ r.DaysOverdue.i >= 1)

C9_Witness ==
    /\ Len(processed) = 2
    /\ processed[1].IsOverdue
    /\ processed[1].DaysOverdue = PyInt(1)
    /\ processed[2].EstimatedDeliveryDate = PyDatetime(today)
    /\ processed[2].IsDueSoon
    /\ processed[2].DaysOverdue = PyNone

\* C10: an order without an estimated delivery date is NoDate whether or not
\* it is dispatched, and a dispatched order (stage "Dispatched" or a dispatch
\* timestamp) is NoDate whatever its estimated delivery date.
C10_NoDateWhenNoEtaOrDispatched ==
    \A r \in Rows :
        /\ r.EstimatedDeliveryDate = PyNone => NoDate(r)
        /\ RowDispatched(r) => NoDate(r)

C10_Witness ==
    /\ Len(processed) = 2
    /\ processed[1].EstimatedDeliveryDate = PyDatetime(today - 3)
    /\ processed[1].DispatchedDate # PyNone
    /\ processed[1].Stage # PyStr("Dispatched")
    /\ NoDate(processed[1])
    /\ processed[2].EstimatedDeliveryDate = PyDatetime(today + 8)
    /\ processed[2].Stage = PyStr("Dispatched")
    /\ processed[2].DispatchedDate = PyNone
    /\ NoDate(processed[2])

(***************************************************************************)
(* process_orders_dataframe on a given argument, and the board rendered    *)
(* from the table it returns.                                              *)
(*                                                                         *)
(*   SpecBatch     the argument orders is the input; one step per element  *)
(*                 of the loop, then one step for render_board (app.py,    *)
(*                 test.py) or render_tv_board (test.py).                  *)
(***************************************************************************)

\* a JSON object, as opposed to a scalar, a list or null
IsDict(x) == "t" \notin DOMAIN x

\* a string that float() reads as the number n
NumStr(s, n) == [t |-> "str", s |-> s, num |-> n]

\* "for item in line_items: item.get(...)" raises: line_items is truthy and
\* is no list, or one of its elements has no get method.
LineItemsRaise(order) ==
    LET line_items == PyOr(get_field(order, "LineItems"), PyList(<<>>))
    IN  /\ Truthy(line_items)
        /\ \/ line_items.t # "list"
           \/ \E i \in 1..Len(line_items.items) : ~IsDict(line_items.items[i])

\* src/test.py: stage.startswith raises, stage being truthy and no string
StageRaises(order) ==
    PyOr(PyOr(Get(order, "Stage"), Get(order, "stage")), PyStr("")).t # "str"

\* An exception leaves the loop body for this order.
Raises(order, dep) ==
    /\ ~IsVoid(order)
    /\ \/ dep = "test" /\ StageRaises(order)
       \/ Included(order, dep) /\ LineItemsRaise(order)

\* The arguments of the model.
BoardStages == {"Processing", "Workshop - Processing", "Workshop - To Collect",
                "Workshop - New"}

BatchBase ==
    ("DistributionBranchId" :> PyInt(DISTRIBUTION_BRANCH_ID))
        @@ ("Stage" :> PyStr("Workshop - New"))

\* orders of the configured branch, one per stage and urgency
BoardOrders(now) ==
    {("DistributionBranchId" :> PyInt(DISTRIBUTION_BRANCH_ID))
        @@ ("Stage" :> PyStr(st)) @@ e :
        st \in BoardStages,
        e \in Field("EstimatedDeliveryDate",
                    {DateStr("%Y-%m-%d", now + off) : off \in {-3, 0, DUE_SOON_DAYS + 1}})}

\* orders that meet the exclusion rules in every way
FilterOrders ==
    { BatchBase @@ ("IsVoid" :> PyBool(TRUE)),
      BatchBase @@ ("isVoid" :> PyBool(TRUE)),
      BatchBase @@ ("IsVoid" :> PyBool(FALSE)) @@ ("isVoid" :> PyInt(1)),
      BatchBase @@ ("IsVoid" :> PyStr("false")),
      BatchBase @@ ("IsVoid" :> PyBool(FALSE)),
      ("DistributionBranchId" :> PyInt(1)) @@ ("Stage" :> PyStr("Workshop - New")),
      ("distributionBranchId" :> PyInt(DISTRIBUTION_BRANCH_ID))
          @@ ("stage" :> PyStr("Workshop - To Collect")),
      ("DistributionBranchId" :> PyInt(DISTRIBUTION_BRANCH_ID))
          @@ ("Stage" :> PyStr("Dispatched")),
      ("Stage" :> PyStr("Workshop - Job Complete")),
      ("Stage" :> PyStr("Workshop - New")) @@ ("IsVoid" :> PyNone),
      ("DistributionBranchId" :> PyInt(DISTRIBUTION_BRANCH_ID)),
      ("DistributionBranchId" :> PyInt(DISTRIBUTION_BRANCH_ID))
          @@ ("Stage" :> PyInt(5)) }

\* orders whose fields are null, falsy or under the camelCase key
FieldOrders(now) ==
    { BatchBase @@ ("Id" :> PyInt(0)) @@ ("id" :> PyInt(17)),
      BatchBase @@ ("Id" :> PyInt(0)),
      BatchBase @@ ("Id" :> PyInt(17)) @@ ("id" :> PyInt(18))
                @@ ("Reference" :> PyStr("")) @@ ("reference" :> PyStr("SO-1")),
      BatchBase @@ ("Id" :> PyNone) @@ ("id" :> PyInt(17))
                @@ ("Company" :> PyNone) @@ ("Status" :> PyStr("APPROVED")),
      BatchBase @@ ("id" :> PyInt(17)) @@ ("projectName" :> PyStr("Door"))
                @@ ("createdDate" :> DateStr("%Y-%m-%dT%H:%M:%S", now - 1))
                @@ ("BranchId" :> PyBool(FALSE)) @@ ("branchId" :> PyInt(3)) }

\* orders with line items of every shape
LineItemOrders ==
    { BatchBase @@ ("LineItems" :> PyList(<<"Qty" :> PyInt(5),
                                            "qty" :> PyStr("n/a"),
                                            "UomQtyOrdered" :> PyInt(2)>>)),
      BatchBase @@ ("LineItems" :> PyList(<<<<>>,
                                            ("Qty" :> PyInt(0)) @@ ("qty" :> NumStr("3", 3)),
                                            "Qty" :> PyList(<<>>),
                                            "Qty" :> PyList(<<"Qty" :> PyInt(1)>>)>>)),
      BatchBase @@ ("lineItems" :> PyList(<<"uomQtyOrdered" :> PyBool(TRUE)>>)),
      BatchBase @@ ("LineItems" :> PyNone),
      BatchBase @@ ("LineItems" :> PyList(<<PyNone>>)),
      BatchBase @@ ("LineItems" :> PyList(<<"Qty" :> PyInt(5), PyStr("x")>>)),
      BatchBase @@ ("LineItems" :> PyStr("x")) }

\* an order still in the workshop although a dispatch date was entered
DispatchedOrders(now) ==
    { ("DistributionBranchId" :> PyInt(DISTRIBUTION_BRANCH_ID))
          @@ ("Stage" :> PyStr("Workshop - Processing"))
          @@ ("EstimatedDeliveryDate" :> DateStr("%Y-%m-%d", now - 5))
          @@ ("DispatchedDate" :> DateStr("%Y-%m-%d", now - 1)) }

BatchOrders(now) ==
    BoardOrders(now) \cup FilterOrders \cup FieldOrders(now) \cup LineItemOrders
        \cup DispatchedOrders(now)

RECURSIVE SeqsUpTo(_, _)
\* the sequences over S of length 1..n
SeqsUpTo(S, n) ==
    IF n = 0 THEN {}
    ELSE {<<x>> : x \in S}
            \cup {Append(q, x) : q \in SeqsUpTo(S, n - 1), x \in S}

\* One iteration of "for order in orders".
BatchStep(dep) ==
    /\ deployment = dep
    /\ ~raised
    /\ idx < Len(order_list)
    /\ LET order == order_list[idx + 1]
       IN  /\ raised' = Raises(order, dep)
           /\ processed' = IF ~Raises(order, dep) /\ Included(order, dep)
                           THEN Append(processed, ProcessedRow(order, today))
                           ELSE processed
    /\ idx' = idx + 1
    /\ UNCHANGED <<deployment, today, order_list, board>>
    /\ UNCHANGED <<fetchVars, dateVars, whereVars>>

BatchStepApp == BatchStep("app")

BatchStepTest == BatchStep("test")

\* process_orders_dataframe has returned the table built from processed.
Returned == idx = Len(order_list) /\ ~raised

(***************************************************************************)
(* The board.  A group is the sequence of the rows shown, each row named   *)
(* by its position in the table.  sort_values orders a group by its key,   *)
(* missing values last; rows with equal keys come in any order.            *)
(***************************************************************************)
RECURSIVE LexLe(_, _)
LexLe(a, b) ==
    IF a = <<>> THEN TRUE
    ELSE IF Head(a) # Head(b) THEN Head(a) < Head(b)
    ELSE LexLe(Tail(a), Tail(b))

B2I(b) == IF b THEN 1 ELSE 0

\* sort key of a datetime column, ascending / descending, NaT last
DateAsc(v) == IF v.t = "none" THEN <<1, 0, 0, 0>> ELSE <<0, v.day, v.sec, v.us>>
DateDesc(v) == IF v.t = "none" THEN <<1, 0, 0, 0>> ELSE <<0, -v.day, -v.sec, -v.us>>

ByEta(r) == DateAsc(r.EstimatedDeliveryDate)
ByEtaThenCreated(r) == DateAsc(r.EstimatedDeliveryDate) \o DateAsc(r.CreatedDate)
ByCreated(r) == DateAsc(r.CreatedDate)
ByCreatedDesc(r) == DateDesc(r.CreatedDate)
ByDaysOverdueDesc(r) ==
    IF r.DaysOverdue.t = "none" THEN <<1, 0>> ELSE <<0, -r.DaysOverdue.i>>
\* by=["IsOverdue", "IsDueSoon", "EstimatedDeliveryDate"], ascending=[False, False, True]
ByUrgencyThenEta(r) ==
    <<1 - B2I(r.IsOverdue), 1 - B2I(r.IsDueSoon)>> \o DateAsc(r.EstimatedDeliveryDate)

\* the orderings sort_values may give the rows S, key[i] being the key of row i
Sorted(S, key) ==
    {q \in [1..Cardinality(S) -> S] :
        /\ \A i, j \in 1..Cardinality(S) : i # j => q[i] # q[j]
        /\ \A i, j \in 1..Cardinality(S) : i < j => LexLe(key[q[i]], key[q[j]])}

AllRows == 1..Len(processed)

\* the rows of S in the stage label
InStage(S, label) == {i \in S : processed[i].Stage = PyStr(label)}

NoFlag(r) == ~r.IsOverdue /\ ~r.IsDueSoon /\ ~r.IsOnTrack

\* render_kpi_cards: total_jobs, the "Active Jobs" card
TotalJobs == Len(processed)

\* Mutant of NonProcessing: the columns are cut from the whole table.
NonProcessingAll(r) == r.Stage = r.Stage

\* src/app.py: df["Stage"] != "Processing"
NonProcessing(r) == r.Stage # PyStr("Processing")

\* src/app.py render_board
RenderBoardApp ==
    /\ deployment = "app"
    /\ Returned
    /\ board.view = "none"
    /\ IF processed = <<>>
       THEN board' = [view |-> "info"]
       ELSE LET non_processing == {i \in AllRows : NonProcessing(processed[i])}
            IN  \E w \in Sorted(InStage(AllRows, "Processing"),
                                [i \in AllRows |-> ByUrgencyThenEta(processed[i])]),
                   o \in Sorted({i \in non_processing : processed[i].IsOverdue},
                                [i \in AllRows |-> ByDaysOverdueDesc(processed[i])]),
                   d \in Sorted({i \in non_processing : processed[i].IsDueSoon},
                                [i \in AllRows |-> ByEta(processed[i])]),
                   k \in Sorted({i \in non_processing : processed[i].IsOnTrack},
                                [i \in AllRows |-> ByEta(processed[i])]),
                   n \in Sorted({i \in non_processing : NoFlag(processed[i])},
                                [i \in AllRows |-> ByCreatedDesc(processed[i])]) :
                    board' = [view |-> "app", total_jobs |-> TotalJobs,
                              working |-> w, overdue |-> o,
                              due_soon |-> d, on_track |-> k, no_date |-> n]
    /\ UNCHANGED <<deployment, today, processed, order_list, idx, raised>>
    /\ UNCHANGED <<fetchVars, dateVars, whereVars>>

\* Mutant of InQueue: the queue takes every order that is not overdue.
InQueueNotOverdue(r) ==
    /\ r.Stage # PyStr("Workshop - Processing")
    /\ r.Stage # PyStr("Workshop - To Collect")
    /\ ~r.IsOverdue

\* jobs in queue: not in progress, not to collect, not overdue, due soon
InQueue(r) ==
    /\ r.Stage # PyStr("Workshop - Processing")
    /\ r.Stage # PyStr("Workshop - To Collect")
    /\ ~r.IsOverdue
    /\ r.IsDueSoon

\* src/test.py render_board
RenderBoardTest ==
    /\ deployment = "test"
    /\ Returned
    /\ board.view = "none"
    /\ IF processed = <<>>
       THEN board' = [view |-> "info"]
       ELSE \E w \in Sorted(InStage(AllRows, "Workshop - Processing"),
                            [i \in AllRows |-> ByUrgencyThenEta(processed[i])]),
               c \in Sorted(InStage(AllRows, "Workshop - To Collect"),
                            [i \in AllRows |-> ByEtaThenCreated(processed[i])]),
               o \in Sorted({i \in AllRows : processed[i].IsOverdue},
                            [i \in AllRows |-> ByDaysOverdueDesc(processed[i])]),
               n \in Sorted({i \in AllRows : NoFlag(processed[i])},
                            [i \in AllRows |-> ByCreated(processed[i])]),
               q \in Sorted({i \in AllRows : InQueue(processed[i])},
                            [i \in AllRows |-> ByEta(processed[i])]) :
                board' = [view |-> "test", total_jobs |-> TotalJobs,
                          working |-> w, to_collect |-> c,
                          overdue |-> o, no_date |-> n, queue |-> q]
    /\ UNCHANGED <<deployment, today, processed, order_list, idx, raised>>
    /\ UNCHANGED <<fetchVars, dateVars, whereVars>>

\* src/test.py render_tv_board
RenderTvBoard ==
    /\ deployment = "test"
    /\ Returned
    /\ board.view = "none"
    /\ \E o \in Sorted({i \in AllRows : processed[i].IsOverdue},
                       [i \in AllRows |-> ByDaysOverdueDesc(processed[i])]),
          w \in Sorted(InStage(AllRows, "Workshop - Processing"),
                       [i \in AllRows |-> ByEta(processed[i])]),
          c \in Sorted(InStage(AllRows, "Workshop - To Collect"),
                       [i \in AllRows |-> ByEta(processed[i])]),
          q \in Sorted({i \in AllRows : InQueue(processed[i])},
                       [i \in AllRows |-> ByEta(processed[i])]) :
           board' = [view |-> "tv", overdue |-> o, working |-> w,
                     to_collect |-> c, queue |-> q]
    /\ UNCHANGED <<deployment, today, processed, order_list, idx, raised>>
    /\ UNCHANGED <<fetchVars, dateVars, whereVars>>

InitBatch ==
    /\ FetchIdle
    /\ creds = TRUE
    /\ deployment \in {"app", "test"}
    /\ today = MaxToday
    /\ processed = <<>>
    /\ order_list \in SeqsUpTo(BatchOrders(today), MaxOrders)
    /\ idx = 0
    /\ raised = FALSE
    /\ board = [view |-> "none"]
    /\ DateIdle
    /\ WhereIdle

NextBatch ==
    \/ BatchStepApp
    \/ BatchStepTest
    \/ RenderBoardApp
    \/ RenderBoardTest
    \/ RenderTvBoard

SpecBatch == InitBatch /\ [][NextBatch]_vars

(***************************************************************************)
(* Claims about process_orders_dataframe and the board, checked under      *)
(* SpecBatch.                                                              *)
(***************************************************************************)

\* the raw orders the loop has gone through
Consumed == SubSeq(order_list, 1, idx)

\* the raw orders the loop appended a row for, in order
KeptByLoop(order) == Included(order, deployment)
SourceOrders == SelectSeq(Consumed, KeptByLoop)

\* processed holds the rows of the raw orders srcs, one each, in order
RowsOf(srcs) ==
    /\ Len(processed) = Len(srcs)
    /\ \A i \in 1..Len(srcs) : processed[i] = ProcessedRow(srcs[i], today)

\* the void flag of a raw record is truthy, under either casing of the key
VoidFlagged(order) == Truthy(Get(order, "IsVoid")) \/ Truthy(Get(order, "isVoid"))

\* C11: no record whose void flag (IsVoid or isVoid) is truthy ever appears
\* in the output of process_orders_dataframe, whatever its other attributes.
C11_NoVoidInOutput ==
    ~raised =>
        /\ RowsOf(SourceOrders)
        /\ \A i \in 1..Len(SourceOrders) : ~VoidFlagged(SourceOrders[i])

\* void records of the configured branch and of a workshop stage were gone
\* through, under both casings of the flag, and the output is one other row
C11_Witness ==
    /\ Returned
    /\ Len(order_list) = 2
    /\ Get(order_list[1], "isVoid") = PyInt(1)
    /\ BranchMatches(order_list[1]) /\ StageMatches(order_list[1])
    /\ Get(order_list[2], "Id") = PyInt(17)
    /\ Len(processed) = 1
    /\ processed[1].Id = PyInt(17)

\* the distribution-branch identifier of a raw record
BranchIdOf(order) ==
    IF Get(order, "DistributionBranchId") # PyNone
    THEN Get(order, "DistributionBranchId")
    ELSE Get(order, "distributionBranchId")

\* the stage of a raw record
StageOf(order) ==
    IF Get(order, "Stage") # PyNone THEN Get(order, "Stage")
    ELSE Get(order, "stage")

\* the inclusion rule of the deployment
ActiveRule(order) ==
    IF deployment = "app"
    THEN BranchIdOf(order) = PyInt(6877)
    ELSE StageOf(order).t = "str" /\ StageOf(order).s \in PrefixedStages

RuleKeeps(order) == ~VoidFlagged(order) /\ ActiveRule(order)

\* C12: one inclusion rule per deployment.  With src/app.py the output is
\* the non-void records whose distribution-branch identifier is 6877, the
\* stage not being tested; with src/test.py it is the non-void records whose
\* stage starts with "Workshop - ", the branch not being tested.  A non-void
\* record that satisfies the rule is never dropped.
C12_OneInclusionRule ==
    ~raised => RowsOf(SelectSeq(Consumed, RuleKeeps))

C12_Witness ==
    /\ Returned
    /\ Len(order_list) = 2
    /\ Len(processed) = 1
    /\ \/ /\ deployment = "app"
          /\ BranchIdOf(order_list[1]) = PyInt(6877)
          /\ StageOf(order_list[1]) = PyStr("Dispatched")
          /\ processed[1].Stage = PyStr("Dispatched")
          /\ BranchIdOf(order_list[2]) = PyInt(1)
          /\ StageOf(order_list[2]) = PyStr("Workshop - New")
       \/ /\ deployment = "test"
          /\ BranchIdOf(order_list[1]) = PyNone
          /\ StageOf(order_list[1]) = PyStr("Workshop - Job Complete")
          /\ processed[1].Stage = PyStr("Workshop - Job Complete")
          /\ StageOf(order_list[2]) = PyStr("Dispatched")
          /\ BranchIdOf(order_list[2]) = PyInt(6877)

\* how many times row i is shown in the group q
Shown(q, i) == Cardinality({k \in 1..Len(q) : q[k] = i})

\* C13: every order of the collection handed to render_board of src/app.py
\* is shown in exactly one of the groups Currently Working On, Overdue, Due
\* Soon, On Track, No ETD, so the group sizes sum to the size of the
\* collection.
C13_ExactlyOneGroup ==
    board.view = "app" =>
        /\ \A i \in AllRows :
              Shown(board.working, i) + Shown(board.overdue, i)
                + Shown(board.due_soon, i) + Shown(board.on_track, i)
                + Shown(board.no_date, i) = 1
        /\ Len(board.working) + Len(board.overdue) + Len(board.due_soon)
              + Len(board.on_track) + Len(board.no_date) = Len(processed)

C13_Witness ==
    /\ board.view = "app"
    /\ Len(processed) = 2
    /\ processed[1].Stage = PyStr("Processing") /\ processed[1].IsOverdue
    /\ board.working = <<1>>
    /\ processed[2].Stage = PyStr("Workshop - Processing") /\ NoFlag(processed[2])
    /\ board.no_date = <<2>>
    /\ board.overdue = <<>>

\* C14: on the boards of src/test.py (render_board, render_tv_board) an
\* order whose stage is "Workshop - Processing" is shown in at most one
\* group, whatever its urgency.
C14_InProgressInOneGroup ==
    /\ board.view = "test" =>
          \A i \in AllRows : processed[i].Stage = PyStr("Workshop - Processing") =>
              Shown(board.working, i) + Shown(board.to_collect, i)
                + Shown(board.overdue, i) + Shown(board.no_date, i)
                + Shown(board.queue, i) <= 1
    /\ board.view = "tv" =>
          \A i \in AllRows : processed[i].Stage = PyStr("Workshop - Processing") =>
              Shown(board.overdue, i) + Shown(board.working, i)
                + Shown(board.to_collect, i) + Shown(board.queue, i) <= 1

\* the place of a row in the claimed order of the in-progress group
UrgencyRank(r) == IF r.IsOverdue THEN 0 ELSE IF r.IsDueSoon THEN 1 ELSE 2

\* the group q lists Overdue rows first, then DueSoon rows, then the rest,
\* each run by ascending estimated delivery date
UrgencyThenEtaOrder(q) ==
    \A i, j \in 1..Len(q) : i < j =>
        /\ UrgencyRank(processed[q[i]]) <= UrgencyRank(processed[q[j]])
        /\ UrgencyRank(processed[q[i]]) = UrgencyRank(processed[q[j]]) =>
              LexLe(ByEta(processed[q[i]]), ByEta(processed[q[j]]))

\* C25: wherever the in-progress group is shown (Currently Working On of
\* src/app.py and src/test.py, IN WORKSHOP of the TV board) its orders come
\* Overdue first, then DueSoon, then the rest, each run by ascending ETA.
C25_InProgressOrder ==
    board.view \in {"app", "test", "tv"} => UrgencyThenEtaOrder(board.working)

\* row i is shown in some group of the desktop board of src/test.py
OnTestBoard(i) ==
    Shown(board.working, i) + Shown(board.to_collect, i)
        + Shown(board.overdue, i) + Shown(board.no_date, i)
        + Shown(board.queue, i) > 0

\* an OnTrack order that is neither in progress nor to collect
OnTrackElsewhere(r) ==
    /\ r.IsOnTrack
    /\ r.Stage # PyStr("Workshop - Processing")
    /\ r.Stage # PyStr("Workshop - To Collect")

\* C29: on the desktop board of src/test.py an OnTrack order whose stage is
\* neither "Workshop - Processing" nor "Workshop - To Collect" is in no
\* group although the Active Jobs total counts it; every other order is in
\* at least one group.
C29_OnTrackInNoGroup ==
    board.view = "test" =>
        /\ board.total_jobs = Cardinality(AllRows)
        /\ \A i \in AllRows : OnTrackElsewhere(processed[i]) <=> ~OnTestBoard(i)

C29_Witness ==
    /\ board.view = "test"
    /\ board.total_jobs = 2
    /\ OnTrackElsewhere(processed[1]) /\ ~OnTestBoard(1)
    /\ processed[2].IsOnTrack
    /\ processed[2].Stage = PyStr("Workshop - To Collect")
    /\ board.to_collect = <<2>>

\* the first non-null value under the PascalCase key, then the camelCase key
FirstNonNull(order, field_name) ==
    IF Get(order, field_name) # PyNone THEN Get(order, field_name)
    ELSE Get(order, Camel(field_name))

\* C15: get_field(name) is the first non-null value under the PascalCase key
\* or, failing that, the camelCase key: a non-null PascalCase value, be it 0,
\* False or "", is returned without consulting the camelCase key; absent in
\* both gives null.  Id and BranchId are the columns that hold get_field's
\* value as it is.
C15_FirstNonNullCasing ==
    ~raised =>
        \A i \in 1..Len(processed) :
            /\ Len(processed) = Len(SourceOrders)
            /\ processed[i].Id = FirstNonNull(SourceOrders[i], "Id")
            /\ processed[i].BranchId = FirstNonNull(SourceOrders[i], "BranchId")

\* the exception that left the loop came from the stage test of src/test.py
AbortedByStage == deployment = "test" /\ StageRaises(order_list[idx])

\* C16: a line item whose quantity is missing or cannot be coerced to a
\* number adds 0 to qtyTotal, which is the sum of the numeric quantities of
\* the other lines, and no shape of line-item data aborts the processing of
\* the order or of the remaining orders.
C16_LineItemsNeverAbort ==
    /\ raised => AbortedByStage
    /\ ~raised =>
          \A i \in 1..Len(processed) :
              LET line_items == FirstNonNull(SourceOrders[i], "LineItems")
              IN  processed[i].QtyTotal =
                      IF line_items.t = "list" THEN QtyTotal(line_items.items) ELSE 0

\* the raw record has the field under neither casing of its key
Lacks(order, field_name) ==
    field_name \notin DOMAIN order /\ Camel(field_name) \notin DOMAIN order

TextFields == {"Reference", "ProjectName", "Company", "Stage", "Status"}
NullFields == {"CreatedDate", "ModifiedDate", "EstimatedDeliveryDate",
               "DispatchedDate", "Id"}

\* C17: a record that passes the exclusion rules and lacks a field entirely
\* gets the default of the attribute and raises nothing: "" for Reference,
\* ProjectName, Company, Stage, Status; null for the four dates and Id; 0 for
\* LineCount and QtyTotal; urgency NoDate without an estimated delivery date.
C17_DefaultsForMissingFields ==
    /\ (raised /\ ~AbortedByStage) => ~Lacks(order_list[idx], "LineItems")
    /\ ~raised =>
          \A i \in 1..Len(processed) :
              LET src == SourceOrders[i]
                  row == processed[i]
              IN  /\ Len(processed) = Len(SourceOrders)
                  /\ \A f \in TextFields : Lacks(src, f) => row[f] = PyStr("")
                  /\ \A f \in NullFields : Lacks(src, f) => row[f] = PyNone
                  /\ Lacks(src, "LineItems") => (row.LineCount = 0 /\ row.QtyTotal = 0)
                  /\ Lacks(src, "EstimatedDeliveryDate") => NoDate(row)

C17_Witness ==
    /\ Returned
    /\ deployment = "app"
    /\ order_list = <<"DistributionBranchId" :> PyInt(6877)>>
    /\ Len(processed) = 1
    /\ \A f \in TextFields : processed[1][f] = PyStr("")
    /\ \A f \in NullFields : processed[1][f] = PyNone
    /\ processed[1].LineCount = 0 /\ processed[1].QtyTotal = 0
    /\ NoDate(processed[1])

(***************************************************************************)
(* parse_date as a function of its argument.                               *)
(*                                                                         *)
(*   SpecDates     the argument is the input; one step for the call, one   *)
(*                 for a second call on the result, handed over as its     *)
(*                 string representation, as its ISO 8601 text or as the   *)
(*                 object itself.                                          *)
(***************************************************************************)
DateYears == {2023, 2024}
SlashNumbers == {0, 3, 4, 12, 13, 29, 31}

DateValues ==
    {SlashText(a, b, y) : a \in SlashNumbers, b \in SlashNumbers, y \in DateYears}
      \cup {DateText(y, m, d, x) : y \in DateYears, m \in {2, 13}, d \in {29, 30},
                                   x \in {"", "Z"}}
      \cup {IsoText(2024, 4, 3, sep, h, 5, 6, f, x) :
                sep \in {"T", " "}, h \in {10, 24}, f \in {NoFrac, 0, 450},
                x \in {"", "Z", "+00:00", "+12:00"}}
      \cup {PyNone, PyInt(20240403), PyStr("soon"), PyStr(""), PyBool(TRUE),
            PyList(<<>>), PyDatetimeAt(93, 36306, 450), PyDatetime(0)}

\* the calendar date of a day number
Civil(day) ==
    CHOOSE c \in (DateYears \cup {2022, 2025}) \X (1..12) \X (1..31) :
        ValidDate(c[1], c[2], c[3]) /\ DayNumber(c[1], c[2], c[3]) = day

\* YYYY-MM-DD<sep>HH:MM:SS, with .ffffff when the microsecond is not 0
Formatted(dt, sep) ==
    LET c == Civil(dt.day)
    IN  IsoText(c[1], c[2], c[3], sep, dt.sec \div 3600, (dt.sec % 3600) \div 60,
                dt.sec % 60, IF dt.us = 0 THEN NoFrac ELSE dt.us, "")

\* str(dt)
StrOf(dt) == Formatted(dt, " ")

\* dt.isoformat()
IsoFormat(dt) == Formatted(dt, "T")

CallParseDate ==
    /\ date_arg # NotCalled
    /\ parsed = NotCalled
    /\ parsed' = parse_date(date_arg)
    /\ UNCHANGED <<date_arg, via, reparsed>>
    /\ UNCHANGED <<fetchVars, classifyVars, batchVars, whereVars>>

Reparse(how, value) ==
    /\ parsed.t = "datetime"
    /\ via = "none"
    /\ via' = how
    /\ reparsed' = parse_date(value)
    /\ UNCHANGED <<date_arg, parsed>>
    /\ UNCHANGED <<fetchVars, classifyVars, batchVars, whereVars>>

ReparseStr == Reparse("str", StrOf(parsed))

ReparseIsoFormat == Reparse("isoformat", IsoFormat(parsed))

ReparseObject == Reparse("object", parsed)

InitDates ==
    /\ FetchIdle
    /\ creds = TRUE
    /\ ClassifyIdle
    /\ order_list = <<>>
    /\ idx = 0
    /\ raised = FALSE
    /\ board = [view |-> "none"]
    /\ date_arg \in DateValues
    /\ parsed = NotCalled
    /\ via = "none"
    /\ reparsed = NotCalled
    /\ WhereIdle

NextDates == CallParseDate \/ ReparseStr \/ ReparseIsoFormat \/ ReparseObject

SpecDates == InitDates /\ [][NextDates]_vars

(***************************************************************************)
(* build_where_clause and the query parameters of fetch_sales_orders       *)
(*                                                                         *)
(* A Python string is the sequence of its pieces: a stage name is one      *)
(* piece, and so is each literal part of the f-string and the separator.   *)
(***************************************************************************)
MaxExcluded == 2

\* main: all_stages, the options of the stage filter
all_stages ==
    <<"New", "Processing", "Job Complete", "To Call", "To Collect",
      "Awaiting PO", "Awaiting Payment", "Release To Pick",
      "Partially Picked", "Fully Picked", "Fully Picked - Hold", "On Hold",
      "Ready to Invoice", "Fully Dispatched", "Dispatched", "Cancelled">>

\* main: excluded_stages = [s for s in all_stages if s not in selected_stages],
\* the stages left out of the selection, in the order of all_stages
ExcludedChoices ==
    {<<>>} \cup
    {[k \in DOMAIN q |-> all_stages[q[k]]] :
        q \in {r \in SeqsUpTo(DOMAIN all_stages, MaxExcluded) :
                  \A k \in 1..(Len(r) - 1) : r[k] < r[k + 1]}}

Text(pieces) == [t |-> "text", pieces |-> pieces]

\* f"Stage<>'{stage}'"
Condition(stage) == <<"Stage<>'", stage, "'">>

RECURSIVE Join(_, _)
\* sep.join(parts)
Join(sep, parts) ==
    IF parts = <<>> THEN <<>>
    ELSE IF Len(parts) = 1 THEN parts[1]
    ELSE parts[1] \o <<sep>> \o Join(sep, Tail(parts))

\* build_where_clause: " AND ".join(conditions) if conditions else ""
build_where_clause(stages) ==
    LET conditions == [k \in DOMAIN stages |-> Condition(stages[k])]
    IN  IF conditions # <<>> THEN Text(Join(" AND ", conditions)) ELSE Text(<<>>)

\* Mutant of RequestParams: the where key is sent with every request.
RequestParamsAlwaysWhere(p, clause) ==
    ("fields" :> "fields") @@ ("order" :> "order") @@ ("page" :> p)
        @@ ("rows" :> rows_per_page) @@ ("where" :> clause)

\* params = {...}; if where: params["where"] = where
RequestParams(p, clause) ==
    LET base == ("fields" :> "fields") @@ ("order" :> "order")
                    @@ ("page" :> p) @@ ("rows" :> rows_per_page)
    IN  IF clause.pieces # <<>> THEN base @@ ("where" :> clause) ELSE base

\* fetch_sales_orders up to the first request: the clause is built once and
\* the parameters of page 1 are put together.
FirstPageParams ==
    /\ where = NotCalled
    /\ where' = build_where_clause(excluded_stages)
    /\ params' = RequestParams(1, where')
    /\ UNCHANGED excluded_stages
    /\ UNCHANGED <<fetchVars, classifyVars, batchVars, dateVars>>

\* The next turn of "while True" after a full page: params is built anew.
NextPageParams ==
    /\ where # NotCalled
    /\ ~OverLimit(params["page"] + 1)
    /\ params' = RequestParams(params["page"] + 1, where)
    /\ UNCHANGED <<excluded_stages, where>>
    /\ UNCHANGED <<fetchVars, classifyVars, batchVars, dateVars>>

InitWhere ==
    /\ FetchIdle
    /\ creds = TRUE
    /\ ClassifyIdle
    /\ BatchIdle
    /\ DateIdle
    /\ excluded_stages \in ExcludedChoices
    /\ where = NotCalled
    /\ params = NotCalled

NextWhere == FirstPageParams \/ NextPageParams

SpecWhere == InitWhere /\ [][NextWhere]_vars

(***************************************************************************)
(* Claims about parse_date, checked under SpecDates.                       *)
(***************************************************************************)

\* C19: day/month/year is tried before month/day/year: "03/04/2024" is 3
\* April 2024, and a/b/y is read month-first only when b is no month or a no
\* day of it, as "04/13/2024" is 13 April 2024; a string that matches no
\* format and a value that is neither string nor timestamp give null.
C19_DayFirstBeforeMonthFirst ==
    parsed # NotCalled =>
        /\ date_arg = SlashText(3, 4, 2024) => parsed = PyDatetimeAt(93, 0, 0)
        /\ date_arg = SlashText(4, 13, 2024) => parsed = PyDatetimeAt(103, 0, 0)
        /\ (IsDateText(date_arg) /\ date_arg.form = "slash") =>
              parsed =
                IF ValidDate(date_arg.y, date_arg.b, date_arg.a)
                THEN PyDatetime(DayNumber(date_arg.y, date_arg.b, date_arg.a))
                ELSE IF ValidDate(date_arg.y, date_arg.a, date_arg.b)
                THEN PyDatetime(DayNumber(date_arg.y, date_arg.a, date_arg.b))
                ELSE PyNone
        /\ date_arg \in {PyStr("soon"), PyStr(""), DateText(2023, 2, 29, ""),
                         IsoText(2024, 4, 3, " ", 10, 5, 6, NoFrac, ""),
                         IsoText(2024, 4, 3, "T", 10, 5, 6, NoFrac, "+12:00")}
              => parsed = PyNone
        /\ date_arg.t \notin {"str", "datetime"} => parsed = PyNone

C19_Witness ==
    /\ date_arg = SlashText(3, 4, 2024)
    /\ parsed = PyDatetimeAt(93, 0, 0)
    /\ via = "none"

\* C20: for a date string that matches a format, parse_date applied to the
\* string representation of its result gives the same timestamp, and
\* parse_date applied to the timestamp itself returns it unchanged.
C20_ReparseOfStringRepresentation ==
    /\ (via = "str" /\ date_arg.t = "str") => reparsed = parsed
    /\ via = "object" => reparsed = parsed

\* C20 as amended: for a date string that matches a format, parse_date
\* applied to the ISO 8601 text of its result (isoformat(), date and time
\* joined by "T") gives the same timestamp, and parse_date applied to the
\* timestamp itself returns it unchanged; the str() text, which joins date
\* and time by a space, matches no format and gives null.
C20_ReparseOfIsoFormat ==
    /\ (via = "isoformat" /\ date_arg.t = "str") => reparsed = parsed
    /\ via = "object" => reparsed = parsed
    /\ via = "str" => reparsed = PyNone

C20_Witness ==
    /\ date_arg = IsoText(2024, 4, 3, "T", 10, 5, 6, 450, "Z")
    /\ parsed = PyDatetimeAt(93, 36306, 450)
    /\ via = "isoformat"
    /\ reparsed = parsed

\* The text that describes the failure of an attempt, by its outcome.
OutcomeError(outcome) ==
    CASE outcome = "500" -> "HTTP 500"
      [] outcome = "timeout" -> "timed out"
      [] outcome = "connection" -> "could not connect"
      [] outcome = "exception" -> "request failed"
      [] outcome = "429" -> "HTTP 429"
      [] OTHER -> NoValue

\* C18: once the 3 attempts of a request_json call have failed, whatever the
\* mix of 429, other statuses, timeouts and connection errors, the API error
\* shown is that of the third attempt: never an earlier attempt's, never empty.
C18_SurfacesLastAttemptError ==
    (attempt = API_MAX_RETRIES /\ pc \in {"loop", "returned"}) =>
        /\ Last(errors).msg = "api_error"
        /\ Last(errors).detail # NoValue
        /\ Last(errors).detail = OutcomeError(trace[API_MAX_RETRIES])

\* C23: with CIN7_USERNAME or CIN7_KEY missing the run halts with the
\* configuration error before any HTTP request: the credentials are read on
\* entering request_json, ahead of the first attempt, and no request is made.
C23_NoRequestWithoutCredentials ==
    ~creds =>
        /\ trace = <<>>
        /\ calls <= 1
        /\ pc \in {"start", "halted"}
        /\ pc = "halted" =>
              /\ calls = 1
              /\ errors = <<[msg |-> "credentials", detail |-> NoValue]>>
              /\ result.kind = "none"

C23_Witness ==
    /\ ~creds
    /\ pc = "halted"
    /\ calls = 1
    /\ trace = <<>>
    /\ Last(errors).msg = "credentials"

\* a fatal error was shown: missing credentials, HTTP 401 or HTTP 403
FatalShown == \E i \in 1..Len(errors) : errors[i].msg \in {"credentials", "auth"}

\* C22: a fatal error (missing credentials, 401, 403) stops the run before
\* the board is rendered, so what the user sees is never the "no jobs found"
\* notice of an empty but successful fetch: a run ends either halted, with
\* nothing rendered, or with the board rendered and no fatal error.
C22_FatalNeverNoJobs ==
    /\ FatalShown <=> pc = "halted"
    /\ pc = "halted" => (board.view = "none" /\ result.kind = "none")
    /\ board.view # "none" => (pc = "returned" /\ result.kind = "table" /\ ~FatalShown)

C22_Witness ==
    /\ pc = "halted"
    /\ page = 1
    /\ trace = <<"401">>
    /\ Last(errors) = [msg |-> "auth", detail |-> "401"]
    /\ board.view = "none"

\* C30: when the retries for page 1 are exhausted by retryable failures the
\* fetch returns the empty table a successful fetch without records returns,
\* the run is not halted and the board shows its "no jobs found" notice; the
\* API error shown by request_json is the only difference.
C30_PageOneExhaustedIsEmptyTable ==
    (page = 1 /\ attempt = API_MAX_RETRIES) =>
        /\ pc \in {"loop", "returned"}
        /\ Len(errors) = 1
        /\ errors[1].msg = "api_error"
        /\ pc = "returned" =>
              /\ result = [kind |-> "table", raw |-> 0]
              /\ all_orders = 0
              /\ ~warned
              /\ board.view \in {"none", "info"}

C30_Witness ==
    /\ page = 1
    /\ trace = <<"timeout", "500", "connection">>
    /\ pc = "returned"
    /\ result = [kind |-> "table", raw |-> 0]
    /\ board.view = "info"
    /\ Len(errors) = 1

RECURSIVE ClaimedWait(_)
\* the seconds slept for the outcomes tr of one call: after the failed
\* attempt i (0-based) that another attempt follows, 2 * (i + 1) base delays
\* for a 429 and i + 1 for any other retryable failure
ClaimedWait(tr) ==
    IF tr = <<>> THEN 0
    ELSE LET i == Len(tr) - 1
             rest == ClaimedWait(SubSeq(tr, 1, i))
         IN  IF Last(tr) \in {"200", "401", "403"} \/ i + 1 >= API_MAX_RETRIES
             THEN rest
             ELSE IF Last(tr) = "429" THEN rest + API_RETRY_DELAY * (i + 1) * 2
             ELSE rest + API_RETRY_DELAY * (i + 1)

\* C26: request_json waits baseDelay * (i + 1) * 2 after a 429 on attempt i
\* (0-based) and baseDelay * (i + 1) after any other retryable failure, and
\* only when another attempt follows; so a call without a 429 waits at most
\* baseDelay * (1 + 2) in all.
C26_BackoffWaits ==
    /\ waited = ClaimedWait(trace)
    /\ (\A k \in 1..Len(trace) : trace[k] # "429") =>
          waited <= API_RETRY_DELAY * (1 + 2)

\* C28: a 200 page without records ends the pagination, adding nothing and
\* showing no error: after k full pages of 250 the empty page is request
\* k + 1 and the k * 250 records are returned; an empty page 1 gives the
\* empty table after exactly one page request.
C28_EmptyPageEndsFetch ==
    (pc = "returned" /\ stop = "empty") =>
        /\ Last(trace) = "200"
        /\ Last(sizes) = 0
        /\ errors = <<>>
        /\ ~warned
        /\ calls = Len(sizes)
        /\ AllFull(sizes, calls - 1)
        /\ all_orders = rows_per_page * (calls - 1)
        /\ result = [kind |-> "table", raw |-> rows_per_page * (calls - 1)]
        /\ sizes = <<0>> => (calls = 1 /\ result.raw = 0)

C28_Witness ==
    /\ pc = "returned"
    /\ stop = "empty"
    /\ sizes = <<250, 250, 0>>
    /\ calls = 3
    /\ result.raw = 500
    /\ errors = <<>>

\* an upper bound of the HTTP requests sent so far: 3 for every request_json
\* call that is over, and those of the current call
RequestsSoFar == IF calls = 0 THEN 0 ELSE API_MAX_RETRIES * (calls - 1) + Len(trace)

\* C27: whatever the server answers, one run of fetch_sales_orders ends
\* after at most 100 page fetches of at most 3 attempts each, at most 300
\* HTTP requests, in exactly one of a returned table and a halt on a fatal
\* error.
C27_FetchTerminates ==
    /\ <>(pc \in {"returned", "halted"})
    /\ [](/\ calls <= 100
          /\ Len(trace) <= 3
          /\ RequestsSoFar <= 300
          /\ pc = "returned" => result.kind = "table"
          /\ pc = "halted" => result.kind = "none")
    /\ [][(pc = "returned" \/ pc = "halted") => (pc' = pc /\ result' = result)]_vars

C27_Witness ==
    /\ pc = "returned"
    /\ calls = 100
    /\ trace = <<"429", "500", "timeout">>
    /\ RequestsSoFar = 300
    /\ result = [kind |-> "table", raw |-> 99 * rows_per_page]

\* C24: the size bucket of an order is decided by its line count alone: S
\* below 10 lines, M from 10 to 29, L from 30 on; so 9 lines give S, 10 and
\* 29 give M, 30 give L, and two orders of the same line count have the same
\* bucket whatever their quantities, dates and stages.
C24_SizeBucketByLineCount ==
    \A i \in 1..Len(processed) :
        LET row == processed[i]
        IN  /\ row.LineCount = 9 => row.SizeBucket = "S"
            /\ row.LineCount = 10 => row.SizeBucket = "M"
            /\ row.LineCount = 29 => row.SizeBucket = "M"
            /\ row.LineCount = 30 => row.SizeBucket = "L"
            /\ row.SizeBucket = "S" <=> row.LineCount < 10
            /\ row.SizeBucket = "M" <=> row.LineCount \in 10..29
            /\ row.SizeBucket = "L" <=> row.LineCount >= 30
            /\ \A j \in 1..Len(processed) :
                  processed[j].LineCount = row.LineCount
                      => processed[j].SizeBucket = row.SizeBucket

C24_Witness ==
    /\ Len(processed) = 2
    /\ processed[1].LineCount = 10 /\ processed[2].LineCount = 10
    /\ processed[1].SizeBucket = "M" /\ processed[2].SizeBucket = "M"
    /\ processed[1].QtyTotal # processed[2].QtyTotal
    /\ processed[1].Stage # processed[2].Stage
    /\ processed[1].EstimatedDeliveryDate # processed[2].EstimatedDeliveryDate

(***************************************************************************)
(* Claims about the query, checked under SpecWhere.                        *)
(***************************************************************************)

\* C21: the filter sent to the API is one clause Stage<>'s' for each
\* excluded stage s, in the order of the exclusion list, joined by " AND ";
\* with no stage excluded no request carries a where parameter, and with
\* some stage excluded every page's request carries that filter.
C21_WhereClausePerExcludedStage ==
    where # NotCalled =>
        LET n == Len(excluded_stages)
            w == where.pieces
        IN  /\ Len(w) = IF n = 0 THEN 0 ELSE 4 * n - 1
            /\ \A k \in 1..n :
                  /\ SubSeq(w, 4 * k - 3, 4 * k - 1)
                        = <<"Stage<>'", excluded_stages[k], "'">>
                  /\ k < n => w[4 * k] = " AND "
            /\ n = 0 => "where" \notin DOMAIN params
            /\ n > 0 => "where" \in DOMAIN params /\ params["where"] = where

C21_Witness ==
    /\ excluded_stages = <<"To Call", "Cancelled">>
    /\ where # NotCalled
    /\ params["page"] = 2
    /\ params["where"].pieces
          = <<"Stage<>'", "To Call", "'", " AND ", "Stage<>'", "Cancelled", "'">>

====
